---- MODULE Spec2Model ----
(***************************************************************************)
(* relapse (src/src/relapse/main.py): files under a root are grouped into  *)
(* batches by gaps between modification times, one batch is selected by    *)
(* index or by datetime, and the selection is printed, archived, copied or *)
(* handed to code2prompt.                                                  *)
(*                                                                         *)
(* Representation.                                                         *)
(*  - A path or any other string the program orders or takes apart is the  *)
(*    tuple of its character codes ("/" is 47), so that str comparison,    *)
(*    Path.parts, Path.name and Path.relative_to are computed, not assumed.*)
(*  - st_mtime and max_gap are floats in the program; here they are        *)
(*    integers (ticks).  A datetime is an integer count of datetime units, *)
(*    each DtResolution ticks long: datetime has a coarser resolution than *)
(*    st_mtime, so not every mtime is the timestamp of a datetime.         *)
(*  - An optional value (None or a value) is a tuple of length 0 or 1.     *)
(*  - A Batch object is identified by its position in the batch list.      *)
(***************************************************************************)
EXTENDS Integers, Sequences, FiniteSets, TLC

VARIABLES
    pc,           \* where the run is: "start", then "built"/"chosen" (batch functions),
                  \* "selected" (select_files) or "done" (a command run by main)
    args,         \* the argparse.Namespace
    root_exists,  \* root.exists()
    scan,         \* what collect_files(root) returns, in enumeration order
    batches,      \* the list build_batches returned
    dt,           \* the datetime handed to choose_batch_by_datetime
    chosen,       \* position of the batch choose_batch_by_datetime returned (0: None)
    selection,    \* the outcome of select_files
    stdout,       \* lines printed
    stderr,       \* messages printed to stderr
    tar,          \* the archive opened by cmd_zip, if any
    copied,       \* the copies made by cmd_copy
    tool_argv,    \* the command line handed to subprocess.call, if any
    exit_status   \* the process's exit status, once it has ended

vars == <<pc, args, root_exists, scan, batches, dt, chosen, selection,
          stdout, stderr, tar, copied, tool_argv, exit_status>>

----------------------------------------------------------------------------
(* Bounds *)

MaxFiles == 3         \* longest scan given to the batch functions
MaxTime == 4          \* mtimes are 0..MaxTime ticks
MaxGap == 1           \* --max-gap-seconds ranges over -MaxNegGap..MaxGap
MaxNegGap == 1
DtResolution == 2     \* ticks per datetime unit

Times == 0..MaxTime
Gaps == (0 - MaxNegGap)..MaxGap
Datetimes == 0..((MaxTime + 1) \div DtResolution)

----------------------------------------------------------------------------
(* Optional values and strings *)

None == <<>>
Some(v) == <<v>>
IsNone(o) == Len(o) = 0
Val(o) == o[1]

Min(a, b) == IF a <= b THEN a ELSE b

\* str.__lt__: lexicographic comparison of the character codes
StrLess(s, t) ==
    \E i \in 1..(Min(Len(s), Len(t)) + 1) :
        /\ \A j \in 1..(i - 1) : s[j] = t[j]
        /\ \/ i = Len(s) + 1 /\ i <= Len(t)
           \/ i <= Len(s) /\ i <= Len(t) /\ s[i] < t[i]

\* s starts with the string p
StartsWith(s, p) == Len(p) <= Len(s) /\ SubSeq(s, 1, Len(p)) = p

\* the files of the model's file system, as resolved absolute paths
Path_r_a == <<47, 114, 47, 97>>                             \* "/r/a"
Path_r_b == <<47, 114, 47, 98>>                             \* "/r/b"
Path_r_c == <<47, 114, 47, 99>>                             \* "/r/c"
Path_r_docs_a == <<47, 114, 47, 100, 111, 99, 115, 47, 97>> \* "/r/docs/a"
Path_r_docs_b == <<47, 114, 47, 100, 111, 99, 115, 47, 98>> \* "/r/docs/b"
Path_docs_a == <<47, 100, 111, 99, 115, 47, 97>>            \* "/docs/a"
Root_r == <<47, 114>>                                       \* "/r"
Root_docs == <<47, 100, 111, 99, 115>>                      \* "/docs"
Str_docs == <<100, 111, 99, 115>>                           \* "docs"

----------------------------------------------------------------------------
(* collect_files: the scans a root can produce *)

\* A scan is a list of (path, st_mtime) pairs.  Paths are resolved, so two
\* links to one file give the same pair twice; one file has one mtime.
FileEntries(paths, times) == [path : paths, mtime : times]

RECURSIVE SeqsUpTo(_, _)
SeqsUpTo(S, n) ==
    IF n = 0 THEN {<<>>}
    ELSE LET shorter == SeqsUpTo(S, n - 1)
         IN shorter \cup {Append(s, x) : s \in {t \in shorter : Len(t) = n - 1}, x \in S}

collect_files(paths, times, maxlen) ==
    {s \in SeqsUpTo(FileEntries(paths, times), maxlen) :
        \A i, j \in 1..Len(s) : s[i].path = s[j].path => s[i].mtime = s[j].mtime}

----------------------------------------------------------------------------
(* build_batches *)

\* list.sort(key=mtime, reverse=True): stable, so entries with equal mtimes
\* keep their scan order.  Insertion after every entry that is not older.
\* (The program sorts the caller's list in place; `scan` keeps the order of
\* enumeration, and the sorted list is the one the loop walks.)
RECURSIVE InsertDesc(_, _)
InsertDesc(sorted, item) ==
    IF sorted = <<>> THEN <<item>>
    ELSE IF Head(sorted).mtime >= item.mtime
         THEN <<Head(sorted)>> \o InsertDesc(Tail(sorted), item)
         ELSE <<item>> \o sorted

RECURSIVE SortDescFrom(_, _, _)
SortDescFrom(files, i, acc) ==
    IF i > Len(files) THEN acc
    ELSE SortDescFrom(files, i + 1, InsertDesc(acc, files[i]))

\* faulty variant: the files are batched in scan order
sort_skipped(files) == files

sort_by_mtime_reverse(files) == SortDescFrom(files, 1, <<>>)

\* Batch(paths=[path], max_ts=mtime, min_ts=mtime)
NewBatch(item) == [paths |-> <<item.path>>, max_ts |-> item.mtime, min_ts |-> item.mtime]

\* faulty variant: a gap equal to the threshold starts a new batch
StartsNewBatch_at_threshold(current, mtime, max_gap) == current.min_ts - mtime >= max_gap

\* the test that starts a new batch: gap > max_gap, gap = current.min_ts - mtime
StartsNewBatch(current, mtime, max_gap) == current.min_ts - mtime > max_gap

\* one turn of the loop over the sorted files
BatchStep(bs, item, max_gap) ==
    IF bs = <<>> THEN <<NewBatch(item)>>
    ELSE LET current == bs[Len(bs)]
         IN IF StartsNewBatch(current, item.mtime, max_gap)
            THEN Append(bs, NewBatch(item))
            ELSE [bs EXCEPT ![Len(bs)] =
                     [current EXCEPT !.paths = Append(current.paths, item.path),
                                     !.min_ts = item.mtime]]

RECURSIVE BatchLoop(_, _, _, _)
BatchLoop(files, i, max_gap, bs) ==
    IF i > Len(files) THEN bs
    ELSE BatchLoop(files, i + 1, max_gap, BatchStep(bs, files[i], max_gap))

build_batches(files, max_gap) ==
    BatchLoop(sort_by_mtime_reverse(files), 1, max_gap, <<>>)

----------------------------------------------------------------------------
(* choose_batch_by_datetime *)

\* dt.timestamp(): the datetime's instant, in ticks
timestamp(d) == d * DtResolution

\* faulty variant: the window's older end left out
ContainsTs_exclusive(b, dt_ts) == b.min_ts < dt_ts /\ dt_ts <= b.max_ts

\* batch.min_ts <= dt_ts <= batch.max_ts
ContainsTs(b, dt_ts) == b.min_ts <= dt_ts /\ dt_ts <= b.max_ts

\* batch.max_ts <= dt_ts
AtOrBeforeTs(b, dt_ts) == b.max_ts <= dt_ts

\* the first loop: position of the first batch containing dt_ts, 0 when none
FirstContaining(bs, dt_ts) ==
    IF \E i \in 1..Len(bs) : ContainsTs(bs[i], dt_ts)
    THEN CHOOSE i \in 1..Len(bs) :
             ContainsTs(bs[i], dt_ts) /\ \A j \in 1..(i - 1) : ~ContainsTs(bs[j], dt_ts)
    ELSE 0

\* the second loop: position of the first batch at or before dt_ts, 0 when none
FirstAtOrBefore(bs, dt_ts) ==
    IF \E i \in 1..Len(bs) : AtOrBeforeTs(bs[i], dt_ts)
    THEN CHOOSE i \in 1..Len(bs) :
             AtOrBeforeTs(bs[i], dt_ts) /\ \A j \in 1..(i - 1) : ~AtOrBeforeTs(bs[j], dt_ts)
    ELSE 0

\* faulty variant: the last fallback returns the newest batch, not the oldest
choose_batch_newest_fallback(bs, d) ==
    IF bs = <<>> THEN 0
    ELSE LET dt_ts == timestamp(d)
         IN IF FirstContaining(bs, dt_ts) # 0 THEN FirstContaining(bs, dt_ts)
            ELSE IF dt_ts >= bs[1].max_ts THEN 1
            ELSE IF FirstAtOrBefore(bs, dt_ts) # 0 THEN FirstAtOrBefore(bs, dt_ts)
            ELSE 1

choose_batch_by_datetime(bs, d) ==
    IF bs = <<>> THEN 0
    ELSE LET dt_ts == timestamp(d)
         IN IF FirstContaining(bs, dt_ts) # 0 THEN FirstContaining(bs, dt_ts)
            ELSE IF dt_ts >= bs[1].max_ts THEN 1
            ELSE IF FirstAtOrBefore(bs, dt_ts) # 0 THEN FirstAtOrBefore(bs, dt_ts)
            ELSE Len(bs)

----------------------------------------------------------------------------
(* Paths *)

\* position of the first "/" of s at or after position i, Len(s) + 1 when none
RECURSIVE NextSlash(_, _)
NextSlash(s, i) ==
    IF i > Len(s) THEN Len(s) + 1
    ELSE IF s[i] = 47 THEN i
    ELSE NextSlash(s, i + 1)

\* position of the last "/" of s, 0 when none
RECURSIVE LastSlash(_, _)
LastSlash(s, i) ==
    IF i = 0 THEN 0
    ELSE IF s[i] = 47 THEN i
    ELSE LastSlash(s, i - 1)

\* relative.parts[0] of a relative path (parts is empty for the empty path)
FirstPart(relative) == SubSeq(relative, 1, NextSlash(relative, 1) - 1)

\* Path.name: the last component
PathName(p) == SubSeq(p, LastSlash(p, Len(p)) + 1, Len(p))

\* path.relative_to(root): None stands for the ValueError of a path not under root
relative_to(path, root) ==
    IF StartsWith(path, root \o <<47>>)
    THEN Some(SubSeq(path, Len(root) + 2, Len(path)))
    ELSE None

classify_path(root, relative) ==
    IF PathName(root) = Str_docs THEN "docs"
    ELSE IF relative # <<>> /\ FirstPart(relative) = Str_docs THEN "docs"
    ELSE "code"

----------------------------------------------------------------------------
(* Command-line values *)

\* A string given as the positional batch argument or to --datetime, by what
\* the program asks of it: str.isdigit(), and what datetime.fromisoformat
\* makes of it.  A digits-only string here is a short one ("0", "1", ...),
\* which fromisoformat rejects.
DigitsArg(n) == [kind |-> "digits", val |-> n, utc |-> FALSE]   \* "0", "1", ...
IsoArg(d, utc) == [kind |-> "iso", val |-> d, utc |-> utc]      \* wall time d, "Z" suffix iff utc
MalformedArg == [kind |-> "malformed", val |-> 0, utc |-> FALSE] \* "yesterday"

isdigit(s) == s.kind = "digits"

\* the local zone's offset from UTC, in datetime units
LocalUtcOffset == 1

\* dt.astimezone().replace(tzinfo=None): an aware datetime as local wall time
astimezone(d) == d + LocalUtcOffset

\* exceptions
Exc(type, text, nums) == [type |-> type, text |-> text, nums |-> nums]
ArgumentTypeError == Exc("ArgumentTypeError", "Datetime must be ISO 8601", <<>>)
BothSelectorsError == Exc("ValueError", "Use only one of --index or --datetime.", <<>>)
NegativeIndexError == Exc("ValueError", "Batch index must be >= 0.", <<>>)
RootNotFoundError == Exc("FileNotFoundError", "Root does not exist", <<>>)
OutOfRangeError(idx, n) ==
    Exc("IndexError", "Requested batch {idx}, but only {n} batch(es) found.", <<idx, n>>)
ToolNotFoundError == Exc("FileNotFoundError", "No such file or directory: 'code2prompt'", <<>>)

\* parse_datetime: [raised, value]
parse_datetime(value) ==
    IF value.kind # "iso"
    THEN [raised |-> Some(ArgumentTypeError), value |-> None]
    ELSE [raised |-> None,
          value |-> Some(IF value.utc THEN astimezone(value.val) ELSE value.val)]

\* parse_selection_args: [raised, batch_index, batch_datetime]
SelectionArgs(raised, batch_index, batch_datetime) ==
    [raised |-> raised, batch_index |-> batch_index, batch_datetime |-> batch_datetime]

\* the test of the first statement
BothSelectorsGiven(a) == ~IsNone(a.index) /\ ~IsNone(a.datetime_value)

\* batch_datetime = parse_datetime(...), whose exception propagates
FromDatetime(parsed) == SelectionArgs(parsed.raised, None, parsed.value)

parse_selection_args(a) ==
    IF BothSelectorsGiven(a)
    THEN SelectionArgs(Some(BothSelectorsError), None, None)
    ELSE LET r == IF ~IsNone(a.index)
                  THEN SelectionArgs(None, a.index, None)
                  ELSE IF ~IsNone(a.datetime_value)
                  THEN FromDatetime(parse_datetime(Val(a.datetime_value)))
                  ELSE IF ~IsNone(a.batch)
                  THEN IF isdigit(Val(a.batch))
                       THEN SelectionArgs(None, Some(Val(a.batch).val), None)
                       ELSE FromDatetime(parse_datetime(Val(a.batch)))
                  ELSE SelectionArgs(None, None, None)
         IN IF IsNone(r.raised) /\ ~IsNone(r.batch_index) /\ Val(r.batch_index) < 0
            THEN SelectionArgs(Some(NegativeIndexError), None, None)
            ELSE r

----------------------------------------------------------------------------
(* select_files *)

\* the keys of the dict `selected`: str(relative) of every path of the batch
\* that is under root and passes the filter
PassesFilter(a, root, relative) ==
    a.filter = "all" \/ classify_path(root, relative) = a.filter

SelectedKeys(a, root, paths) ==
    {Val(relative_to(paths[i], root)) :
        i \in {k \in 1..Len(paths) :
                  /\ ~IsNone(relative_to(paths[k], root))
                  /\ PassesFilter(a, root, Val(relative_to(paths[k], root)))}}

\* selected[key]: the SelectedFile stored last under key
SelectedAt(root, paths, key) ==
    LET last == CHOOSE i \in 1..Len(paths) :
                    /\ relative_to(paths[i], root) = Some(key)
                    /\ \A j \in (i + 1)..Len(paths) : relative_to(paths[j], root) # Some(key)
    IN [absolute |-> paths[last], relative |-> key]

\* sorted(selected): the keys in ascending str order
RECURSIVE SortedKeys(_)
SortedKeys(keys) ==
    IF keys = {} THEN <<>>
    ELSE LET least == CHOOSE k \in keys : \A o \in keys \ {k} : StrLess(k, o)
         IN <<least>> \o SortedKeys(keys \ {least})

OrderedFiles(a, root, paths) ==
    LET keys == SortedKeys(SelectedKeys(a, root, paths))
    IN [i \in 1..Len(keys) |-> SelectedAt(root, paths, keys[i])]

\* faulty variant: the last batch is out of range too
IndexOutOfRange_last(idx, bs) == idx + 1 >= Len(bs)

\* idx >= len(batches)
IndexOutOfRange(idx, bs) == idx >= Len(bs)

\* faulty variant: an empty scan goes on to the batches
NoFiles_unchecked(files) == FALSE

\* not files
NoFiles(files) == files = <<>>

\* select_files: [raised, result], result None or Some(Selection)
Selected(raised, result) == [raised |-> raised, result |-> result]

select_files(a, rootExists, files) ==
    LET sel == parse_selection_args(a)
        root == a.root
        bs == build_batches(files, a.max_gap_seconds)
        idx == IF IsNone(sel.batch_index) THEN 0 ELSE Val(sel.batch_index)
        pos == IF ~IsNone(sel.batch_datetime)
               THEN choose_batch_by_datetime(bs, Val(sel.batch_datetime))
               ELSE idx + 1
    IN IF ~IsNone(sel.raised) THEN Selected(sel.raised, None)
       ELSE IF ~rootExists THEN Selected(Some(RootNotFoundError), None)
       ELSE IF NoFiles(files) THEN Selected(None, None)
       ELSE IF IsNone(sel.batch_datetime) /\ IndexOutOfRange(idx, bs)
       THEN Selected(Some(OutOfRangeError(idx, Len(bs))), None)
       ELSE IF pos = 0 THEN Selected(None, None)
       ELSE Selected(None, Some([batch |-> bs[pos],
                                 files |-> OrderedFiles(a, root, bs[pos].paths)]))

----------------------------------------------------------------------------
(* Output actions *)

DestDir == <<47, 111>>                                      \* "/o", args.dest.resolve()

format_path(selected, fmt) ==
    IF fmt = "absolute" THEN selected.absolute
    ELSE IF fmt = "name" THEN PathName(selected.absolute)
    ELSE selected.relative

PathLine(text) == [kind |-> "path", text |-> text, window |-> <<>>, count |-> 0]
\* "Batch: {format_window(min_ts, max_ts)} ({n} files)"
HeaderLine(b, n) == [kind |-> "header", text |-> <<>>, window |-> <<b.min_ts, b.max_ts>>, count |-> n]

\* what a command did: the exception it let out (if any), its return value,
\* and its output
Outcome(raised, status, out, archive, copies, tool) ==
    [raised |-> raised, status |-> status, stdout |-> out, tar |-> archive,
     copied |-> copies, tool_argv |-> tool]
Raises(exc) == Outcome(exc, 0, <<>>, None, <<>>, None)
Returns(status) == Outcome(None, status, <<>>, None, <<>>, None)

print_outcome(a, sel) ==
    IF ~IsNone(sel.raised) THEN Raises(sel.raised)
    ELSE IF IsNone(sel.result) THEN Returns(0)
    ELSE LET s == Val(sel.result)
             header == IF a.pretty THEN <<HeaderLine(s.batch, Len(s.files))>> ELSE <<>>
             lines == [i \in 1..Len(s.files) |-> PathLine(format_path(s.files[i], a.format))]
         IN Outcome(None, 0, header \o lines, None, <<>>, None)

\* selection is None or not selection.files
NothingSelected(sel) == IsNone(sel.result) \/ Val(sel.result).files = <<>>

zip_outcome(a, sel) ==
    IF ~IsNone(sel.raised) THEN Raises(sel.raised)
    ELSE IF NothingSelected(sel) THEN Returns(0)
    ELSE LET s == Val(sel.result)
             members == [i \in 1..Len(s.files) |->
                            [name |-> s.files[i].absolute, arcname |-> s.files[i].relative]]
         IN Outcome(None, 0, <<>>,
                    Some([output |-> a.output, members |-> members, closed |-> TRUE]),
                    <<>>, None)

\* subprocess.call(cmd): raises when code2prompt is not installed, else
\* returns the tool's exit status
code2prompt_outcome(a, sel, installed, rc) ==
    IF ~IsNone(sel.raised) THEN Raises(sel.raised)
    ELSE IF NothingSelected(sel) THEN Returns(0)
    ELSE IF ~installed THEN Raises(Some(ToolNotFoundError))
    ELSE LET s == Val(sel.result)
         IN Outcome(None, rc, <<>>, None, <<>>,
                    Some([prog |-> "code2prompt",
                          files |-> [i \in 1..Len(s.files) |-> s.files[i].absolute]]))

copy_outcome(a, sel) ==
    IF ~IsNone(sel.raised) THEN Raises(sel.raised)
    ELSE IF NothingSelected(sel) THEN Returns(0)
    ELSE LET s == Val(sel.result)
         IN Outcome(None, 0, <<>>, None,
                    [i \in 1..Len(s.files) |->
                        [src |-> s.files[i].absolute,
                         target |-> DestDir \o <<47>> \o s.files[i].relative]],
                    None)

----------------------------------------------------------------------------
(* main *)

\* except (ValueError, FileNotFoundError, IndexError)
Caught(exc) == exc.type \in {"ValueError", "FileNotFoundError", "IndexError"}

ErrorStatus == 2       \* main's `return 2`

\* main: return args.func(args), with its handler; an exception the handler
\* does not name leaves main and the interpreter prints its traceback
main(sel, o) ==
    /\ pc' = "done"
    /\ selection' = sel
    /\ stdout' = o.stdout
    /\ tar' = o.tar
    /\ copied' = o.copied
    /\ tool_argv' = o.tool_argv
    /\ IF IsNone(o.raised)
       THEN stderr' = <<>> /\ exit_status' = Some(o.status)
       ELSE IF Caught(Val(o.raised))
       THEN /\ stderr' = <<[kind |-> "message", exc |-> Val(o.raised)]>>
            /\ exit_status' = Some(ErrorStatus)
       ELSE /\ stderr' = <<[kind |-> "traceback", exc |-> Val(o.raised)]>>
            /\ exit_status' = Some(1)    \* the interpreter's status for an uncaught exception
    /\ UNCHANGED <<args, root_exists, scan, batches, dt, chosen>>

cmd_print ==
    /\ pc = "start" /\ args.command = "print"
    /\ LET sel == select_files(args, root_exists, scan)
       IN main(sel, print_outcome(args, sel))

cmd_zip ==
    /\ pc = "start" /\ args.command = "zip"
    /\ LET sel == select_files(args, root_exists, scan)
       IN main(sel, zip_outcome(args, sel))

cmd_code2prompt ==
    /\ pc = "start" /\ args.command \in {"code2prompt", "ccc"}
    /\ \E installed \in BOOLEAN, rc \in 0..1 :
           LET sel == select_files(args, root_exists, scan)
           IN main(sel, code2prompt_outcome(args, sel, installed, rc))

cmd_copy ==
    /\ pc = "start" /\ args.command = "copy"
    /\ LET sel == select_files(args, root_exists, scan)
       IN main(sel, copy_outcome(args, sel))

\* no command given: build_parser().print_help(); return 2
HelpLine == [kind |-> "help", text |-> <<>>, window |-> <<>>, count |-> 0]

print_help ==
    /\ pc = "start" /\ args.command = ""
    /\ main(None, Outcome(None, ErrorStatus, <<HelpLine>>, None, <<>>, None))

----------------------------------------------------------------------------
(* The batch functions applied to a scan *)

BuildBatches ==
    /\ pc = "start"
    /\ batches' = build_batches(scan, args.max_gap_seconds)
    /\ pc' = "built"
    /\ UNCHANGED <<args, root_exists, scan, dt, chosen, selection,
                   stdout, stderr, tar, copied, tool_argv, exit_status>>

ChooseByDatetime ==
    /\ pc = "built"
    /\ \E d \in Datetimes :
           /\ dt' = Some(d)
           /\ chosen' = choose_batch_by_datetime(batches, d)
    /\ pc' = "chosen"
    /\ UNCHANGED <<args, root_exists, scan, batches, selection,
                   stdout, stderr, tar, copied, tool_argv, exit_status>>

(* select_files applied to a scan *)

SelectFiles ==
    /\ pc = "start"
    /\ selection' = select_files(args, root_exists, scan)
    /\ pc' = "selected"
    /\ UNCHANGED <<args, root_exists, scan, batches, dt, chosen,
                   stdout, stderr, tar, copied, tool_argv, exit_status>>

----------------------------------------------------------------------------
(* Initial states and specifications *)

SelMaxFiles == 3      \* longest scan given to select_files
SelMaxTime == 1       \* its mtimes are 0..SelMaxTime
MaxIndex == 2         \* --index ranges over -1..MaxIndex
MainMaxFiles == 1     \* longest scan of a whole run of main
MainMaxTime == 1      \* its mtimes are 0..MainMaxTime

AllPaths == {Path_r_a, Path_r_docs_a, Path_docs_a}
Roots == {Root_r, Root_docs}
Filters == {"all", "docs", "code"}            \* --filter choices
Formats == {"relative", "absolute", "name"}   \* --format choices
Outputs == {"batch.tar.gz", "-"}              \* --output: the default, and stdout

Namespace(command, batch, datetime_value, index, gap, root, filter) ==
    [command |-> command, batch |-> batch, datetime_value |-> datetime_value,
     index |-> index, max_gap_seconds |-> gap, root |-> root, filter |-> filter,
     format |-> "relative", pretty |-> FALSE, output |-> "batch.tar.gz"]

IndexArgs == {None} \cup {Some(i) : i \in (0 - 1)..MaxIndex}
DatetimeArgs(ds) ==
    {None, Some(MalformedArg)} \cup {Some(IsoArg(d, u)) : d \in ds, u \in BOOLEAN}
PositionalArgs(ds) ==
    {None, Some(MalformedArg)} \cup {Some(DigitsArg(n)) : n \in 0..MaxIndex}
        \cup {Some(IsoArg(d, FALSE)) : d \in ds}

NothingDone ==
    /\ pc = "start"
    /\ batches = <<>>
    /\ dt = None
    /\ chosen = 0
    /\ selection = None
    /\ stdout = <<>>
    /\ stderr = <<>>
    /\ tar = None
    /\ copied = <<>>
    /\ tool_argv = None
    /\ exit_status = None

\* build_batches and choose_batch_by_datetime on every scan and threshold
InitBatch ==
    /\ NothingDone
    /\ root_exists = TRUE
    /\ scan \in collect_files({Path_r_a, Path_r_b, Path_r_docs_a}, Times, MaxFiles)
    /\ \E g \in Gaps : args = Namespace("", None, None, None, g, Root_r, "all")

NextBatch == BuildBatches \/ ChooseByDatetime

SpecBatch == InitBatch /\ [][NextBatch]_vars

\* select_files on every scan, threshold, filter and --index/--datetime
InitSelect ==
    /\ NothingDone
    /\ root_exists = TRUE
    /\ scan \in collect_files(AllPaths, 0..SelMaxTime, SelMaxFiles)
    /\ \E g \in Gaps, root \in Roots, filter \in Filters, index \in IndexArgs,
          d \in {None} \cup {Some(IsoArg(x, FALSE)) : x \in 0..((SelMaxTime + 1) \div DtResolution)} :
           args = Namespace("", None, d, index, g, root, filter)

NextSelect == SelectFiles

SpecSelect == InitSelect /\ [][NextSelect]_vars

\* a whole run of main
MainDatetimes == {0}
MainNamespaces ==
    {Namespace(c, b, d, i, g, root, filter) :
        c \in {"print", "zip", "code2prompt", "ccc", "copy"},
        b \in PositionalArgs(MainDatetimes), d \in DatetimeArgs(MainDatetimes),
        i \in IndexArgs, g \in {0, MaxGap}, root \in Roots, filter \in Filters}

Init ==
    /\ NothingDone
    /\ root_exists \in BOOLEAN
    /\ scan \in collect_files(AllPaths, 0..MainMaxTime, MainMaxFiles)
    /\ root_exists = FALSE => scan = <<>>
    /\ \/ args \in MainNamespaces
       \/ \E a \in MainNamespaces, fmt \in Formats, pretty \in BOOLEAN :
              a.command = "print" /\ args = [a EXCEPT !.format = fmt, !.pretty = pretty]
       \/ \E a \in MainNamespaces, out \in Outputs :
              a.command = "zip" /\ args = [a EXCEPT !.output = out]
       \/ args = Namespace("", None, None, None, 0, Root_r, "all")

Next == cmd_print \/ cmd_zip \/ cmd_code2prompt \/ cmd_copy \/ print_help

Spec == Init /\ [][Next]_vars

----------------------------------------------------------------------------
(* Claims about build_batches and choose_batch_by_datetime (SpecBatch) *)

max_gap == args.max_gap_seconds

\* the mtime the scan gives a path
MtimeOfPath(p) == scan[CHOOSE i \in 1..Len(scan) : scan[i].path = p].mtime

\* the mtimes of a batch's members, in the batch's order
MemberTimes(b) == [k \in 1..Len(b.paths) |-> MtimeOfPath(b.paths[k])]

Built == pc \in {"built", "chosen"}

\* C1: for a threshold g >= 0, (a) two members adjacent in a batch differ by
\* at most g, and (b) the oldest member of a batch and the newest member of
\* the next batch differ by more than g.
C1_GapRule ==
    (Built /\ max_gap >= 0) =>
        /\ \A i \in 1..Len(batches) :
               LET t == MemberTimes(batches[i])
               IN \A k \in 1..(Len(t) - 1) : t[k] - t[k + 1] \in 0..max_gap
        /\ \A i \in 1..(Len(batches) - 1) :
               LET t == MemberTimes(batches[i])
                   u == MemberTimes(batches[i + 1])
               IN t[Len(t)] - u[1] > max_gap

\* a threshold above 0 that joins two files with different mtimes and
\* separates a third
C1_Witness ==
    /\ pc = "built" /\ max_gap > 0
    /\ Len(batches) = 2
    /\ Len(batches[1].paths) = 2
    /\ batches[1].max_ts - batches[1].min_ts = max_gap
    /\ batches[1].min_ts - batches[2].max_ts = max_gap + 1

\* the scan sorted by mtime descending, equal mtimes in scan order: entry j
\* comes after every newer entry and every equally old entry scanned earlier
RankDesc(j) ==
    1 + Cardinality({k \in 1..Len(scan) : scan[k].mtime > scan[j].mtime})
      + Cardinality({k \in 1..(j - 1) : scan[k].mtime = scan[j].mtime})
ScanSortedDesc ==
    [i \in 1..Len(scan) |-> scan[CHOOSE j \in 1..Len(scan) : RankDesc(j) = i]]

RECURSIVE ConcatPaths(_, _)
ConcatPaths(bs, i) ==
    IF i > Len(bs) THEN <<>> ELSE bs[i].paths \o ConcatPaths(bs, i + 1)

\* C2: for every threshold the batches partition the scan: no batch is empty,
\* the member lists concatenated in output order are the scan sorted by mtime
\* descending (so nothing is added, lost or repeated), and each batch's
\* [min_ts, max_ts] bounds its members, batch 0 holding the newest file.
C2_Partition ==
    Built =>
        /\ \A i \in 1..Len(batches) : Len(batches[i].paths) >= 1
        /\ ConcatPaths(batches, 1) = [i \in 1..Len(scan) |-> ScanSortedDesc[i].path]
        /\ \A i \in 1..Len(batches) :
               LET t == MemberTimes(batches[i])
               IN \A k \in 1..Len(t) : batches[i].min_ts <= t[k] /\ t[k] <= batches[i].max_ts
        /\ scan # <<>> =>
               \A j \in 1..Len(scan) : scan[j].mtime <= batches[1].max_ts

\* a scan that is not in descending order and falls into two batches, one of
\* them with two members
C2_Witness ==
    /\ pc = "built"
    /\ Len(scan) = 3
    /\ scan[1].mtime < scan[2].mtime /\ scan[2].mtime < scan[3].mtime
    /\ Len(batches) = 2
    /\ Len(batches[2].paths) = 2

\* C3: entries with equal mtimes land in the same batch for every threshold,
\* and for every threshold <= 0 the number of batches is the number of
\* distinct mtimes.
DistinctTimes == {scan[i].mtime : i \in 1..Len(scan)}
C3_EqualTimesMerge ==
    Built =>
        /\ \A i, j \in 1..Len(batches) :
               i # j => \A k \in 1..Len(batches[i].paths), l \in 1..Len(batches[j].paths) :
                            MemberTimes(batches[i])[k] # MemberTimes(batches[j])[l]
        /\ max_gap <= 0 => Len(batches) = Cardinality(DistinctTimes)

\* C3, the part that holds: for every threshold >= 0 equal mtimes share a
\* batch, and for threshold 0 there is one batch per distinct mtime.
C3_FromZero == max_gap >= 0 => C3_EqualTimesMerge

\* C3, what the code does below zero: every entry is a batch of its own.
C3_BelowZero == (Built /\ max_gap < 0) => Len(batches) = Len(scan)

\* two entries with one mtime, under a negative threshold
C3_BelowZeroWitness ==
    /\ pc = "built" /\ max_gap < 0
    /\ Len(scan) = 2 /\ scan[1].mtime = scan[2].mtime /\ scan[1].path # scan[2].path
    /\ Len(batches) = 2

\* C4: for a threshold g >= 0, the timestamp of a batch's max_ts or min_ts
\* selects that batch.
C4_BoundaryInclusive ==
    (pc = "chosen" /\ max_gap >= 0) =>
        \A i \in 1..Len(batches) :
            timestamp(Val(dt)) \in {batches[i].max_ts, batches[i].min_ts} => chosen = i

\* the older end of a batch that spans several ticks and is not the last
C4_Witness ==
    /\ pc = "chosen" /\ max_gap >= 0
    /\ Len(batches) >= 2
    /\ batches[1].min_ts < batches[1].max_ts
    /\ timestamp(Val(dt)) = batches[1].min_ts
    /\ chosen = 1

\* C5: for a timestamp contained in no batch, the batch returned is the first
\* (newest) one with max_ts <= ts, which is the newest batch when ts is later
\* than everything; a batch after ts is returned only when every batch is
\* after ts, and then it is the oldest batch.
Uncontained ==
    /\ pc = "chosen" /\ batches # <<>>
    /\ \A i \in 1..Len(batches) :
           ~(batches[i].min_ts <= timestamp(Val(dt)) /\ timestamp(Val(dt)) <= batches[i].max_ts)
C5_AtOrBefore ==
    Uncontained =>
        LET ts == timestamp(Val(dt))
            before == {i \in 1..Len(batches) : batches[i].max_ts <= ts}
        IN /\ chosen \in 1..Len(batches)
           /\ (\A i \in 1..Len(batches) : batches[i].max_ts < ts) => chosen = 1
           /\ before # {} => chosen \in before /\ \A i \in before : chosen <= i
           /\ batches[chosen].min_ts > ts =>
                  /\ \A i \in 1..Len(batches) : batches[i].min_ts > ts
                  /\ chosen = Len(batches)

\* a timestamp between the second and the first of three batches
C5_Witness ==
    /\ Uncontained
    /\ Len(batches) = 3
    /\ chosen = 2
    /\ timestamp(Val(dt)) < batches[1].min_ts

\* a timestamp older than every batch
C5_WitnessOldest ==
    /\ Uncontained
    /\ Len(batches) >= 2
    /\ chosen = Len(batches)
    /\ timestamp(Val(dt)) < batches[Len(batches)].min_ts

----------------------------------------------------------------------------
(* Claims about select_files (SpecSelect) *)

\* the scenario of mtimes {100, 110, 300, 305, 310} with threshold 60
ScenarioScan ==
    <<[path |-> Path_r_a, mtime |-> 100], [path |-> Path_r_b, mtime |-> 110],
      [path |-> Path_r_c, mtime |-> 300], [path |-> Path_r_docs_a, mtime |-> 305],
      [path |-> Path_r_docs_b, mtime |-> 310]>>
ScenarioSelect(i) ==
    select_files(Namespace("print", None, None, Some(i), 60, Root_r, "all"), TRUE, ScenarioScan)
ScenarioOutcome ==
    /\ Len(build_batches(ScenarioScan, 60)) = 2
    /\ ~IsNone(ScenarioSelect(0).result) /\ Val(ScenarioSelect(0).result).batch.min_ts = 300
    /\ ~IsNone(ScenarioSelect(1).result) /\ Val(ScenarioSelect(1).result).batch.max_ts = 110
    /\ ScenarioSelect(2).raised = Some(OutOfRangeError(2, 2)) /\ IsNone(ScenarioSelect(2).result)

\* the index asked for: --index, 0 when there is none
AskedIndex == IF IsNone(args.index) THEN 0 ELSE Val(args.index)
ByIndex ==
    /\ pc = "selected"
    /\ IsNone(args.datetime_value) /\ IsNone(args.batch)
    /\ AskedIndex >= 0
    /\ scan # <<>>

\* C7: over a non-empty scan with n batches, index i < n (0 when no selector
\* is given) selects batches[i], index 0 being the batch of the newest file,
\* and index i >= n raises the out-of-range error reporting n, with no
\* Selection; the scenario gives 2 batches and index 2 fails reporting 2.
C7_ByIndex ==
    /\ ByIndex =>
           LET bs == build_batches(scan, max_gap)
               i == AskedIndex
           IN /\ i < Len(bs) =>
                     /\ IsNone(selection.raised) /\ ~IsNone(selection.result)
                     /\ Val(selection.result).batch = bs[i + 1]
                     /\ i = 0 => \A j \in 1..Len(scan) :
                                     scan[j].mtime <= Val(selection.result).batch.max_ts
              /\ i >= Len(bs) =>
                     /\ selection.raised = Some(OutOfRangeError(i, Len(bs)))
                     /\ IsNone(selection.result)
    /\ ScenarioOutcome

\* index 1 selects the older of two batches
C7_Witness ==
    /\ ByIndex
    /\ args.index = Some(1)
    /\ Len(build_batches(scan, max_gap)) = 2
    /\ ~IsNone(selection.result)
    /\ Val(selection.result).batch.max_ts < scan[1].mtime

\* index 2 of two batches is out of range
C7_WitnessOutOfRange ==
    /\ ByIndex
    /\ args.index = Some(2)
    /\ Len(build_batches(scan, max_gap)) = 2
    /\ selection.raised = Some(OutOfRangeError(2, 2))

\* the scans that hold the same (path, mtime) pairs as s, in every order
Reorderings(s) ==
    {t \in [1..Len(s) -> {s[i] : i \in 1..Len(s)}] :
        \E f \in [1..Len(s) -> 1..Len(s)] :
            /\ \A i, j \in 1..Len(s) : i # j => f[i] # f[j]
            /\ \A i \in 1..Len(s) : t[i] = s[f[i]]}

StrictlyAscending(files) ==
    \A i \in 1..(Len(files) - 1) : StrLess(files[i].relative, files[i + 1].relative)

\* C9: scans that hold the same (path, mtime) pairs in different orders give,
\* with the same threshold, selector and filter, the same batch window and
\* the same ordered file list, strictly ascending by relative path.
C9_ScanOrderIndependent ==
    pc = "selected" =>
        /\ \A other \in Reorderings(scan) :
               LET o == select_files(args, root_exists, other)
               IN /\ o.raised = selection.raised
                  /\ IsNone(o.result) = IsNone(selection.result)
                  /\ ~IsNone(o.result) =>
                         /\ Val(o.result).batch.min_ts = Val(selection.result).batch.min_ts
                         /\ Val(o.result).batch.max_ts = Val(selection.result).batch.max_ts
                         /\ Val(o.result).files = Val(selection.result).files
        /\ ~IsNone(selection.result) => StrictlyAscending(Val(selection.result).files)

\* C9, the part that holds: scan order does not matter for a threshold >= 0.
C9_FromZero == max_gap >= 0 => C9_ScanOrderIndependent

\* C9, the part that holds for every threshold: the file list is strictly
\* ascending by relative path.
C9_Ascending ==
    (pc = "selected" /\ ~IsNone(selection.result)) =>
        StrictlyAscending(Val(selection.result).files)

----------------------------------------------------------------------------
(* Claims about a whole run (Spec) *)

\* a command that selects files has run
Ran == pc = "done" /\ args.command # ""

\* the selectors the command line gives, by any of the three ways
IndexGiven ==
    ~IsNone(args.index) \/ (~IsNone(args.batch) /\ Val(args.batch).kind = "digits")
DatetimeGiven ==
    ~IsNone(args.datetime_value) \/ (~IsNone(args.batch) /\ Val(args.batch).kind # "digits")

NoOutput ==
    /\ stdout = <<>>
    /\ tar = None
    /\ copied = <<>>
    /\ tool_argv = None

\* C6: a run given both an index selector and a datetime selector, by any of
\* the positional argument, --index and --datetime, fails with an input error
\* and selects no batch (stated of the runs whose root exists and holds
\* files, where nothing but the selectors can fail).
C6_MutuallyExclusive ==
    (Ran /\ IndexGiven /\ DatetimeGiven /\ root_exists /\ scan # <<>>) =>
        /\ ~IsNone(selection.raised)
        /\ Val(selection.raised).type \in {"ValueError", "ArgumentTypeError"}
        /\ IsNone(selection.result)

\* C6, the part that holds: --index together with --datetime is refused.
C6_FlagsExclusive ==
    (Ran /\ ~IsNone(args.index) /\ ~IsNone(args.datetime_value)) =>
        selection = Selected(Some(BothSelectorsError), None)

\* one selector at most, and a valid one: none, an index >= 0, or a
\* well-formed datetime
ValidSelector ==
    \/ IsNone(args.index) /\ IsNone(args.datetime_value) /\ IsNone(args.batch)
    \/ /\ ~IsNone(args.index) /\ Val(args.index) >= 0
       /\ IsNone(args.datetime_value) /\ IsNone(args.batch)
    \/ /\ ~IsNone(args.datetime_value) /\ Val(args.datetime_value).kind = "iso"
       /\ IsNone(args.index) /\ IsNone(args.batch)
    \/ /\ ~IsNone(args.batch) /\ Val(args.batch).kind \in {"digits", "iso"}
       /\ IsNone(args.index) /\ IsNone(args.datetime_value)

\* C8: with an existing root and an empty scan, every valid selector gives no
\* exception and no Selection, and every command returns 0 with no output;
\* and select_files returns no Selection only when the scan is empty.
C8_EmptyIsNotAnError ==
    /\ (Ran /\ root_exists /\ scan = <<>> /\ ValidSelector) =>
           /\ selection = Selected(None, None)
           /\ exit_status = Some(0)
           /\ stderr = <<>>
           /\ NoOutput
    /\ (Ran /\ IsNone(selection.raised) /\ IsNone(selection.result)) => scan = <<>>

\* zip of an empty root, asked for batch 2
C8_Witness ==
    /\ Ran /\ root_exists /\ scan = <<>>
    /\ args.command = "zip"
    /\ args.index = Some(2) /\ IsNone(args.datetime_value) /\ IsNone(args.batch)
    /\ exit_status = Some(0)
    /\ tar = None

\* C10: every exception raised while the selection is resolved is caught by
\* main, which prints its message to stderr and returns 2, and nothing has
\* been output.
C10_ErrorsExitTwo ==
    (Ran /\ ~IsNone(selection.raised)) =>
        /\ exit_status = Some(ErrorStatus)
        /\ stderr = <<[kind |-> "message", exc |-> Val(selection.raised)]>>
        /\ NoOutput

\* C10, the part that holds: every exception but parse_datetime's is caught
\* and gives status 2, and no run that raises has output anything.
C10_CaughtErrors ==
    (Ran /\ ~IsNone(selection.raised)) =>
        /\ NoOutput
        /\ Val(selection.raised).type # "ArgumentTypeError" =>
               /\ exit_status = Some(ErrorStatus)
               /\ stderr = <<[kind |-> "message", exc |-> Val(selection.raised)]>>
        /\ Val(selection.raised).type = "ArgumentTypeError" =>
               /\ exit_status = Some(1)
               /\ stderr = <<[kind |-> "traceback", exc |-> Val(selection.raised)]>>

====
